---- MODULE Spec2Model ----
(***************************************************************************)
(* Model of the Doxygen pipeline task (src/pipeline-task/src/index.ts).    *)
(*                                                                         *)
(* A path is a sequence of segments; an absolute path starts with "/".     *)
(* The empty sequence is the absent (undefined or blank) path input.       *)
(* A configuration text is a sequence of tokens: the keyword               *)
(* "OUTPUT_DIRECTORY", "=", the blank " ", the line terminator "\n", and   *)
(* any other string standing for a run of other characters.                *)
(*                                                                         *)
(* Each task is one process running run() (main, index.ts:231-234): it has *)
(* its own working directory and its own host result channel; the file     *)
(* system is shared.  Every action is the code between two awaits; the     *)
(* write of the temporary file and the continuation that starts the        *)
(* generator are two actions, since another process may act in between.    *)
(***************************************************************************)
EXTENDS Naturals, Sequences, FiniteSets, TLC

VARIABLES
    pc,             \* per task: the await the task is suspended at
    host,           \* per task: the input values the host supplies
    inputs,         \* per task: this.inputs (TaskInputs)
    cwd,            \* per task: the process working directory
    originalCwd,    \* per task: generateDocumentation's originalCwd
    checkedPath,    \* per task: validateInputs' configPath
    configPath,     \* per task: generateDocumentation's configPath
    configContent,  \* per task: generateDocumentation's configContent
    tempConfigPath, \* per task: generateDocumentation's tempConfigPath
    error,          \* per task: the error being propagated ("" if none)
    calls,          \* per task: the collaborator calls made so far, in order
    dirs,           \* the directories that exist
    files           \* the files that exist, with their content

vars == <<pc, host, inputs, cwd, originalCwd, checkedPath, configPath, configContent,
          tempConfigPath, error, calls, dirs, files>>

-----------------------------------------------------------------------------
(* Bounds and the input universe                                            *)

\* the task processes; Spec runs the first one alone
Tasks == {1, 2}

Single == {1}

NoPath == <<>>

StartCwd == <<"/", "w">>

HostSourceDirs ==
    {NoPath, <<"/", "w", "src">>, <<"src">>, <<"/", "w">>, <<"/", "ln">>}

HostOutputDirs == {NoPath, <<"/", "w", "out">>}

HostCustomPaths ==
    {NoPath, <<"cfg">>, <<"/", "w", "src", "cfg">>, <<"..", "cfg">>}

HostNames == {"", "P"}

HostVersions == {"", "2.0"}

HostPatterns == {"", "*.c"}

\* where a user's configuration file may lie
UserConfigPaths == {<<"/", "w", "src", "cfg">>, <<"/", "w", "cfg">>}

UserTexts ==
    { <<"INPUT", " ", "=", " ", "x", "\n",
        "OUTPUT_DIRECTORY", " ", "=", " ", "old", "\n">>,
      <<"INPUT", " ", "=", " ", "x", "\n">> }

-----------------------------------------------------------------------------
(* path module                                                              *)

IsAbsolute(p) == Len(p) > 0 /\ p[1] = "/"

RECURSIVE NormalizeSegs(_, _)
NormalizeSegs(done, rest) ==
    IF rest = <<>> THEN done
    ELSE IF rest[1] = "." THEN NormalizeSegs(done, Tail(rest))
    ELSE IF rest[1] = ".."
         THEN IF Len(done) > 1
              THEN NormalizeSegs(SubSeq(done, 1, Len(done) - 1), Tail(rest))
              ELSE NormalizeSegs(done, Tail(rest))
    ELSE NormalizeSegs(Append(done, rest[1]), Tail(rest))

\* path.resolve(...) on the absolute concatenation of its arguments
NormalizeAbs(p) == NormalizeSegs(<<"/">>, Tail(p))

\* path.resolve(from, to) in a process whose working directory is wd
PathResolve2(wd, from, to) ==
    IF IsAbsolute(to) THEN NormalizeAbs(to)
    ELSE IF IsAbsolute(from) THEN NormalizeAbs(from \o to)
    ELSE NormalizeAbs(wd \o from \o to)

\* path.resolve(to) in a process whose working directory is wd
PathResolve1(wd, to) == PathResolve2(wd, NoPath, to)

\* path.join(dir, name) for an absolute dir
PathJoin(dir, name) == NormalizeAbs(dir \o <<name>>)

RECURSIVE PathStrFrom(_, _)
PathStrFrom(p, i) ==
    IF i > Len(p) THEN ""
    ELSE IF i = Len(p) THEN p[i]
    ELSE IF p[i] = "/" THEN "/" \o PathStrFrom(p, i + 1)
    ELSE p[i] \o "/" \o PathStrFrom(p, i + 1)

\* the string a path is printed as in a template literal
PathStr(p) == PathStrFrom(p, 1)

-----------------------------------------------------------------------------
(* Host task library, as far as the task uses it                            *)

\* tl.loc(key, ...args): the message for key, carrying its arguments
loc(key, arg) == key \o ": " \o arg

\* a recorded collaborator call: the operation, the path it was given, whether
\* it completed without error, for setResult the result and the message, and
\* for uploadArtifact the artifact name (msg) and the display name
Call(op, path, ok) ==
    [op |-> op, path |-> path, ok |-> ok, result |-> "", msg |-> "",
     display |-> ""]

setResult(result, msg) ==
    [op |-> "setResult", path |-> NoPath, ok |-> TRUE,
     result |-> result, msg |-> msg, display |-> ""]

SucceededMessage == "Documentation generated successfully"

MissingPathMessage ==
    "Custom Doxyfile path is required when using custom configuration file option"

-----------------------------------------------------------------------------
(* DoxygenTask.getInputs                                                    *)

\* variant: the project version is taken as supplied, without a default
getInputsNoVersionDefault(h, wd) ==
    [sourceDirectory    |-> IF h.sourceDirectory # NoPath
                            THEN h.sourceDirectory ELSE wd,
     outputDirectory    |-> IF h.outputDirectory # NoPath
                            THEN h.outputDirectory ELSE PathJoin(wd, "docs"),
     projectName        |-> IF h.ProjectName # ""
                            THEN h.ProjectName ELSE "My Project",
     projectVersion     |-> h.ProjectVersion,
     sourceFilePattern  |-> IF h.SourceFilePattern # ""
                            THEN h.SourceFilePattern ELSE "*.c *.cpp *.h *.hpp",
     useCustomDoxyFile  |-> h.UseCustomDoxyFile,
     customDoxyFilePath |-> h.CustomDoxyFilePath]

getInputs(h, wd) ==
    [sourceDirectory    |-> IF h.sourceDirectory # NoPath
                            THEN h.sourceDirectory ELSE wd,
     outputDirectory    |-> IF h.outputDirectory # NoPath
                            THEN h.outputDirectory ELSE PathJoin(wd, "docs"),
     projectName        |-> IF h.ProjectName # ""
                            THEN h.ProjectName ELSE "My Project",
     projectVersion     |-> IF h.ProjectVersion # ""
                            THEN h.ProjectVersion ELSE "1.0",
     sourceFilePattern  |-> IF h.SourceFilePattern # ""
                            THEN h.SourceFilePattern ELSE "*.c *.cpp *.h *.hpp",
     useCustomDoxyFile  |-> h.UseCustomDoxyFile,
     customDoxyFilePath |-> h.CustomDoxyFilePath]

HostInputs ==
    [sourceDirectory    : HostSourceDirs,
     outputDirectory    : HostOutputDirs,
     ProjectName        : HostNames,
     ProjectVersion     : HostVersions,
     SourceFilePattern  : HostPatterns,
     UseCustomDoxyFile  : BOOLEAN,
     CustomDoxyFilePath : HostCustomPaths]

-----------------------------------------------------------------------------
(* DoxygenTask.generateAutoDoxyfile                                         *)

Directive(key, value) == <<key, " ", "=", " ", value, "\n">>

TextLine(line) == <<line, "\n">>

BlankLine == <<"\n">>

\* generateAutoDoxyfile: the heading comment
AutoHeader ==
    TextLine("# Auto-generated Doxygen configuration file")
    \o TextLine("# Generated by Azure DevOps Doc via Doxygen task")
    \o BlankLine

\* generateAutoDoxyfile: project information
ProjectSection(in) ==
    TextLine("# Project information")
    \o Directive("PROJECT_NAME", "\"" \o in.projectName \o "\"")
    \o Directive("PROJECT_NUMBER",
                 "\"" \o (IF in.projectVersion # "" THEN in.projectVersion
                          ELSE "1.0") \o "\"")
    \o Directive("PROJECT_BRIEF",
                 "\"Documentation for " \o in.projectName \o "\"")
    \o BlankLine

\* variant: INPUT is given the output directory
InputSectionWrongDirectory(in) ==
    TextLine("# Input settings")
    \o Directive("INPUT", PathStr(in.outputDirectory))
    \o Directive("RECURSIVE", "YES")
    \o Directive("FILE_PATTERNS", in.sourceFilePattern)
    \o BlankLine

\* generateAutoDoxyfile: input settings
InputSection(in) ==
    TextLine("# Input settings")
    \o Directive("INPUT", PathStr(in.sourceDirectory))
    \o Directive("RECURSIVE", "YES")
    \o Directive("FILE_PATTERNS", in.sourceFilePattern)
    \o BlankLine

\* generateAutoDoxyfile: output settings
OutputSection(in) ==
    TextLine("# Output settings")
    \o Directive("OUTPUT_DIRECTORY", PathStr(in.outputDirectory))
    \o Directive("GENERATE_HTML", "YES")
    \o Directive("GENERATE_LATEX", "NO")
    \o Directive("HTML_OUTPUT", "html")
    \o BlankLine

\* generateAutoDoxyfile: the settings no input changes
FixedSettings ==
    TextLine("# Documentation extraction settings")
    \o Directive("EXTRACT_ALL", "YES")
    \o Directive("EXTRACT_PRIVATE", "YES")
    \o Directive("EXTRACT_STATIC", "YES")
    \o Directive("EXTRACT_LOCAL_CLASSES", "YES")
    \o BlankLine
    \o TextLine("# Source browsing")
    \o Directive("SOURCE_BROWSER", "YES")
    \o Directive("INLINE_SOURCES", "YES")
    \o BlankLine
    \o TextLine("# Preprocessing")
    \o Directive("ENABLE_PREPROCESSING", "YES")
    \o Directive("MACRO_EXPANSION", "YES")
    \o Directive("EXPAND_ONLY_PREDEF", "NO")
    \o BlankLine
    \o TextLine("# Dot tool (for diagrams)")
    \o Directive("HAVE_DOT", "NO")
    \o Directive("CLASS_DIAGRAMS", "YES")
    \o BlankLine
    \o TextLine("# Other settings")
    \o Directive("GENERATE_TREEVIEW", "YES")
    \o Directive("DISABLE_INDEX", "NO")
    \o Directive("FULL_SIDEBAR", "NO")
    \o Directive("HTML_COLORSTYLE_HUE", "220")
    \o Directive("HTML_COLORSTYLE_SAT", "100")
    \o Directive("HTML_COLORSTYLE_GAMMA", "80")
    \o BlankLine
    \o TextLine("# Include subdirectories")
    \o Directive("RECURSIVE", "YES")
    \o BlankLine
    \o TextLine("# Optimize for different programming languages")
    \o Directive("OPTIMIZE_OUTPUT_FOR_C", "YES")
    \o Directive("OPTIMIZE_OUTPUT_JAVA", "YES")
    \o BlankLine
    \o TextLine("# Include documentation for undocumented members")
    \o Directive("EXTRACT_ALL", "YES")

generateAutoDoxyfile(in) ==
    AutoHeader \o ProjectSection(in) \o InputSection(in) \o OutputSection(in)
    \o FixedSettings

-----------------------------------------------------------------------------
(* configContent.replace(/^OUTPUT_DIRECTORY\s*=.*$/m, ...)                  *)

LineTerminators == {"\n", "\r"}

WhiteSpace == {" ", "\t", "\n", "\r"}

\* the first index from i on that holds no white space (Len + 1 if none)
RECURSIVE SkipSpace(_, _)
SkipSpace(text, i) ==
    IF i > Len(text) THEN i
    ELSE IF text[i] \in WhiteSpace THEN SkipSpace(text, i + 1)
    ELSE i

\* the last index of the line that index i is on (the greedy .* before $)
RECURSIVE LineEnd(_, _)
LineEnd(text, i) ==
    IF i + 1 > Len(text) THEN i
    ELSE IF text[i + 1] \in LineTerminators THEN i
    ELSE LineEnd(text, i + 1)

\* does the regular expression match starting at index i
MatchesAt(text, i) ==
    /\ i = 1 \/ text[i - 1] \in LineTerminators
    /\ text[i] = "OUTPUT_DIRECTORY"
    /\ LET j == SkipSpace(text, i + 1)
       IN  j <= Len(text) /\ text[j] = "="

MatchStarts(text) == {i \in 1..Len(text) : MatchesAt(text, i)}

FirstMatch(text) ==
    CHOOSE i \in MatchStarts(text) : \A k \in MatchStarts(text) : i <= k

\* the tokens of the string a path is printed as: its segments and the
\* separators between them
RECURSIVE PathTokensFrom(_, _)
PathTokensFrom(p, i) ==
    IF i > Len(p) THEN <<>>
    ELSE IF i = Len(p) \/ p[i] = "/" THEN <<p[i]>> \o PathTokensFrom(p, i + 1)
    ELSE <<p[i], "/">> \o PathTokensFrom(p, i + 1)

PathTokens(p) == PathTokensFrom(p, 1)

\* the replacement string `OUTPUT_DIRECTORY = ${this.inputs.outputDirectory}`
ReplacementString(outputDirectory) ==
    <<"OUTPUT_DIRECTORY", " ", "=", " ">> \o PathTokens(outputDirectory)

\* String.prototype.replace with a string as replacement substitutes the
\* patterns $$, $&, $` and $' in it (the expression has no capture group)
RECURSIVE ExpandReplacement(_, _, _, _)
ExpandReplacement(repl, matched, before, after) ==
    IF repl = <<>> THEN <<>>
    ELSE (CASE repl[1] = "$$" -> <<"$">>
            [] repl[1] = "$&" -> matched
            [] repl[1] = "$`" -> before
            [] repl[1] = "$'" -> after
            [] OTHER -> <<repl[1]>>)
         \o ExpandReplacement(Tail(repl), matched, before, after)

ReplaceOutputDirectory(text, outputDirectory) ==
    IF MatchStarts(text) = {} THEN text
    ELSE LET i == FirstMatch(text)
             e == LineEnd(text, SkipSpace(text, i + 1))
             before == SubSeq(text, 1, i - 1)
             after == SubSeq(text, e + 1, Len(text))
         IN  before
             \o ExpandReplacement(ReplacementString(outputDirectory),
                                  SubSeq(text, i, e), before, after)
             \o after

-----------------------------------------------------------------------------
(* File system                                                              *)

Parent(p) == SubSeq(p, 1, Len(p) - 1)

\* a directory and all its ancestors
Ancestors(p) == {SubSeq(p, 1, k) : k \in 1..Len(p)}

\* the symbolic links of the file system, each with the directory it points to
SymLinks == [p \in {<<"/", "ln">>} |-> <<"/", "w", "src">>]

RECURSIVE RealPathFrom(_, _)
RealPathFrom(done, rest) ==
    IF rest = <<>> THEN done
    ELSE LET next == Append(done, rest[1])
         IN  RealPathFrom(IF next \in DOMAIN SymLinks THEN SymLinks[next]
                          ELSE next,
                          Tail(rest))

\* the file or directory an absolute path leads to, symbolic links followed;
\* process.cwd() reports the working directory in this form
RealPath(p) == RealPathFrom(<<"/">>, Tail(p))

\* fs.pathExists
pathExists(p) == RealPath(p) \in DOMAIN files \/ RealPath(p) \in dirs

\* the file system after fs.writeFile(p, text)
WriteFileTo(p, text) ==
    [q \in DOMAIN files \cup {p} |-> IF q = p THEN text ELSE files[q]]

\* the file system after fs.remove(p)
RemoveFile(p) == [q \in DOMAIN files \ {p} |-> files[q]]

-----------------------------------------------------------------------------
(* Initial states: the task object has been constructed (index.ts:22-24)    *)

NoInputs ==
    [sourceDirectory |-> NoPath, outputDirectory |-> NoPath, ProjectName |-> "",
     ProjectVersion |-> "", SourceFilePattern |-> "",
     UseCustomDoxyFile |-> FALSE, CustomDoxyFilePath |-> NoPath]

InitFileSystem ==
    /\ dirs \in {{<<"/">>, StartCwd}, {<<"/">>, StartCwd, <<"/", "w", "src">>}}
    /\ \E D \in SUBSET UserConfigPaths :
          /\ \A p \in D : Parent(p) \in dirs
          /\ files \in [D -> UserTexts]

\* the tasks in running have been constructed, each on its host inputs
InitTasksOn(running) ==
    /\ inputs = [t \in Tasks |-> getInputs(host[t], StartCwd)]
    /\ pc = [t \in Tasks |-> IF t \in running THEN "start" ELSE "off"]
    /\ cwd = [t \in Tasks |-> StartCwd]
    /\ originalCwd = [t \in Tasks |-> NoPath]
    /\ checkedPath = [t \in Tasks |-> NoPath]
    /\ configPath = [t \in Tasks |-> NoPath]
    /\ configContent = [t \in Tasks |-> <<>>]
    /\ tempConfigPath = [t \in Tasks |-> NoPath]
    /\ error = [t \in Tasks |-> ""]
    /\ calls = [t \in Tasks |-> <<>>]

\* the tasks in running have been constructed on inputs drawn from hosts
InitTasksFrom(running, hosts) ==
    /\ \E h \in hosts :
          host = [t \in Tasks |-> IF t \in running THEN h ELSE NoInputs]
    /\ InitTasksOn(running)

InitTasks(running) == InitTasksFrom(running, HostInputs)

Init == InitTasks(Single) /\ InitFileSystem

-----------------------------------------------------------------------------
(* DoxygenTask.run, validateInputs, generateDocumentation, publishArtifacts *)

Goto(t, label) == pc' = [pc EXCEPT ![t] = label]

Record(t, cs) == calls' = [calls EXCEPT ![t] = calls[t] \o cs]

GenerationFailedMessage(err) == "Failed to generate documentation: " \o err

TaskFailedMessage(err) == "Task failed: " \o err

\* run() is called: it logs and calls validateInputs, which calls
\* checkDoxygenInstallation, which starts the version probe
Start(t) ==
    /\ pc[t] = "start"
    /\ Goto(t, "probe")
    /\ UNCHANGED <<host, inputs, cwd, originalCwd, checkedPath, configPath,
                   configContent, tempConfigPath, error, calls, dirs, files>>

\* variant: the missing-path check is left out
CustomPathMissingUnchecked(in) == FALSE

\* the condition of the second check of validateInputs
CustomPathMissing(in) ==
    in.useCustomDoxyFile /\ in.customDoxyFilePath = NoPath

\* the condition of the first check of validateInputs
CustomPathGiven(in) ==
    in.useCustomDoxyFile /\ in.customDoxyFilePath # NoPath

\* validateInputs from the missing-path check on
CheckPathGiven(t, done) ==
    IF CustomPathMissing(inputs[t])
    THEN /\ Record(t, done \o <<setResult("Failed", MissingPathMessage)>>)
         /\ Goto(t, "generate")
    ELSE /\ Record(t, done)
         /\ Goto(t, "ensureDir")

\* variant: the existence of the custom configuration file is not checked
AfterProbeOkNoExistenceCheck(t, done) ==
    /\ CheckPathGiven(t, done)
    /\ UNCHANGED checkedPath

\* validateInputs after a probe that found the generator
AfterProbeOk(t, done) ==
    IF CustomPathGiven(inputs[t])
    THEN /\ checkedPath' =
               [checkedPath EXCEPT ![t] =
                   PathResolve2(cwd[t], inputs[t].sourceDirectory,
                                inputs[t].customDoxyFilePath)]
         /\ Record(t, done)
         /\ Goto(t, "pathExists")
    ELSE /\ CheckPathGiven(t, done)
         /\ UNCHANGED checkedPath

\* variant: the return after reporting DoxygenNotFound is left out
AfterProbeFailedNoReturn(t, done) ==
    AfterProbeOk(t, done \o <<setResult("Failed", loc("DoxygenNotFound", ""))>>)

\* validateInputs after a probe that did not find the generator
AfterProbeFailed(t, done) ==
    /\ Record(t, done \o <<setResult("Failed", loc("DoxygenNotFound", ""))>>)
    /\ Goto(t, "generate")
    /\ UNCHANGED checkedPath

\* the version probe completes; validateInputs goes on to its next await
Probe(t) ==
    /\ pc[t] = "probe"
    /\ \E ok \in BOOLEAN :
          LET done == <<Call("execVersion", NoPath, ok)>>
          IN  IF ok THEN AfterProbeOk(t, done) ELSE AfterProbeFailed(t, done)
    /\ UNCHANGED <<host, inputs, cwd, originalCwd, configPath, configContent,
                   tempConfigPath, error, dirs, files>>

\* variant: the message carries the path as given, not as resolved
AfterPathExistsUnresolved(t, exists, done) ==
    IF ~exists
    THEN /\ Record(t, done \o <<setResult("Failed",
                       loc("ConfigFileNotFound",
                           PathStr(inputs[t].customDoxyFilePath)))>>)
         /\ Goto(t, "generate")
    ELSE CheckPathGiven(t, done)

\* variant: the return after reporting ConfigFileNotFound is left out
AfterPathExistsNoReturn(t, exists, done) ==
    IF ~exists
    THEN CheckPathGiven(t, done \o <<setResult("Failed",
                       loc("ConfigFileNotFound", PathStr(checkedPath[t])))>>)
    ELSE CheckPathGiven(t, done)

\* validateInputs after fs.pathExists(configPath) has answered
AfterPathExists(t, exists, done) ==
    IF ~exists
    THEN /\ Record(t, done \o <<setResult("Failed",
                       loc("ConfigFileNotFound", PathStr(checkedPath[t])))>>)
         /\ Goto(t, "generate")
    ELSE CheckPathGiven(t, done)

PathExists(t) ==
    /\ pc[t] = "pathExists"
    /\ LET exists == pathExists(checkedPath[t])
       IN  AfterPathExists(t, exists,
                           <<Call("pathExists", checkedPath[t], exists)>>)
    /\ UNCHANGED <<host, inputs, cwd, originalCwd, checkedPath, configPath,
                   configContent, tempConfigPath, error, dirs, files>>

\* fs.ensureDir(outputDirectory) completes; a failure rejects validateInputs
\* and lands in the catch of run()
EnsureDir(t) ==
    /\ pc[t] = "ensureDir"
    /\ LET dir == PathResolve1(cwd[t], inputs[t].outputDirectory)
       IN  \E ok \in BOOLEAN :
              /\ Record(t, <<Call("ensureDir", dir, ok)>>)
              /\ IF ok
                 THEN /\ dirs' = dirs \cup Ancestors(RealPath(dir))
                      /\ Goto(t, "generate")
                      /\ UNCHANGED error
                 ELSE /\ error' = [error EXCEPT ![t] = "Error: EACCES"]
                      /\ Goto(t, "runCatch")
                      /\ UNCHANGED dirs
    /\ UNCHANGED <<host, inputs, cwd, originalCwd, checkedPath, configPath,
                   configContent, tempConfigPath, files>>

\* variant: the catch block reports and does not throw again
GenerationCatchSwallowed(t, done, err) ==
    /\ Record(t, done \o <<setResult("Failed", GenerationFailedMessage(err))>>)
    /\ error' = [error EXCEPT ![t] = err]
    /\ Goto(t, "publish")

\* variant: after its first failure generateDocumentation is called again
GenerationCatchRetried(t, done, err) ==
    /\ Record(t, done \o <<setResult("Failed", GenerationFailedMessage(err))>>)
    /\ error' = [error EXCEPT ![t] = err]
    /\ IF \E i \in 1..Len(calls[t]) : calls[t][i].result = "Failed"
       THEN Goto(t, "runCatch")
       ELSE Goto(t, "generate")

\* the catch block of generateDocumentation: report and throw again
GenerationCatch(t, done, err) ==
    /\ Record(t, done \o <<setResult("Failed", GenerationFailedMessage(err))>>)
    /\ error' = [error EXCEPT ![t] = err]
    /\ Goto(t, "runCatch")

TempName == "Doxyfile.tmp"

\* variant: every task has a temporary file name of its own
UseConfigContentOwnName(t, wd, text) ==
    /\ configContent' = [configContent EXCEPT ![t] = text]
    /\ tempConfigPath' =
           [tempConfigPath EXCEPT ![t] =
               PathJoin(wd, IF t = 1 THEN TempName ELSE "Doxyfile.2.tmp")]
    /\ Goto(t, "writeFile")

\* variant: the temporary file is put beside the source directory
UseConfigContentBesideSource(t, wd, text) ==
    /\ configContent' = [configContent EXCEPT ![t] = text]
    /\ tempConfigPath' =
           [tempConfigPath EXCEPT ![t] = PathJoin(Parent(wd), TempName)]
    /\ Goto(t, "writeFile")

\* generateDocumentation once the configuration text is known
UseConfigContent(t, wd, text) ==
    /\ configContent' = [configContent EXCEPT ![t] = text]
    /\ tempConfigPath' = [tempConfigPath EXCEPT ![t] = PathJoin(wd, TempName)]
    /\ Goto(t, "writeFile")

\* generateDocumentation after process.chdir(sourceDirectory) succeeded
AfterChdir(t, wd, done) ==
    IF CustomPathGiven(inputs[t])
    THEN /\ configPath' =
               [configPath EXCEPT ![t] =
                   PathResolve1(wd, inputs[t].customDoxyFilePath)]
         /\ Record(t, done)
         /\ Goto(t, "readFile")
         /\ UNCHANGED <<configContent, tempConfigPath, error>>
    ELSE /\ UseConfigContent(t, wd, generateAutoDoxyfile(inputs[t]))
         /\ Record(t, done)
         /\ UNCHANGED <<configPath, error>>

\* generateDocumentation is called: it records the working directory and
\* changes it, which throws when the source directory does not exist
GenerateBegin(t) ==
    /\ pc[t] = "generate"
    /\ originalCwd' = [originalCwd EXCEPT ![t] = cwd[t]]
    /\ LET target == PathResolve1(cwd[t], inputs[t].sourceDirectory)
       IN  IF RealPath(target) \in dirs
           THEN /\ cwd' = [cwd EXCEPT ![t] = RealPath(target)]
                /\ AfterChdir(t, RealPath(target),
                              <<Call("chdir", target, TRUE)>>)
           ELSE /\ GenerationCatch(t, <<Call("chdir", target, FALSE)>>,
                                   "Error: ENOENT")
                /\ UNCHANGED <<cwd, configPath, configContent, tempConfigPath>>
    /\ UNCHANGED <<host, inputs, checkedPath, dirs, files>>

\* fs.readFile(configPath) completes
ReadFile(t) ==
    /\ pc[t] = "readFile"
    /\ \E ok \in (IF RealPath(configPath[t]) \in DOMAIN files
                  THEN BOOLEAN ELSE {FALSE}) :
          LET done == <<Call("readFile", configPath[t], ok)>>
          IN  IF ok
              THEN /\ UseConfigContent(t, cwd[t],
                          ReplaceOutputDirectory(files[RealPath(configPath[t])],
                                                 inputs[t].outputDirectory))
                   /\ Record(t, done)
                   /\ UNCHANGED error
              ELSE /\ GenerationCatch(t, done, "Error: ENOENT")
                   /\ UNCHANGED <<configContent, tempConfigPath>>
    /\ UNCHANGED <<host, inputs, cwd, originalCwd, checkedPath, configPath,
                   dirs, files>>

\* fs.writeFile(tempConfigPath, configContent) completes
WriteFile(t) ==
    /\ pc[t] = "writeFile"
    /\ \E ok \in BOOLEAN :
          LET done == <<Call("writeFile", tempConfigPath[t], ok)>>
          IN  IF ok
              THEN /\ files' = WriteFileTo(tempConfigPath[t], configContent[t])
                   /\ Record(t, done)
                   /\ Goto(t, "written")
                   /\ UNCHANGED error
              ELSE /\ GenerationCatch(t, done, "Error: EACCES")
                   /\ UNCHANGED files
    /\ UNCHANGED <<host, inputs, cwd, originalCwd, checkedPath, configPath,
                   configContent, tempConfigPath, dirs>>

\* generateDocumentation resumes after the write and starts the generator
StartDoxygen(t) ==
    /\ pc[t] = "written"
    /\ Goto(t, "exec")
    /\ UNCHANGED <<host, inputs, cwd, originalCwd, checkedPath, configPath,
                   configContent, tempConfigPath, error, calls, dirs, files>>

ExecOutcomes == {"ok", "stderr", "failed"}

\* variant: output on standard error is taken for a failure
ExecDoxygenStderrFails(t) ==
    /\ pc[t] = "exec"
    /\ \E outcome \in ExecOutcomes :
          LET done == <<[Call("execDoxygen", tempConfigPath[t],
                              outcome # "failed")
                         EXCEPT !.msg = outcome]>>
          IN  IF outcome = "ok"
              THEN /\ Record(t, done)
                   /\ Goto(t, "remove")
                   /\ UNCHANGED error
              ELSE GenerationCatch(t, done, "Error: Command failed")
    /\ UNCHANGED <<host, inputs, cwd, originalCwd, checkedPath, configPath,
                   configContent, tempConfigPath, dirs, files>>

\* variant: a failed generator run is not thrown
ExecDoxygenFailureIgnored(t) ==
    /\ pc[t] = "exec"
    /\ \E outcome \in ExecOutcomes :
          /\ Record(t, <<[Call("execDoxygen", tempConfigPath[t],
                               outcome # "failed")
                          EXCEPT !.msg = outcome]>>)
          /\ Goto(t, "remove")
    /\ UNCHANGED <<host, inputs, cwd, originalCwd, checkedPath, configPath,
                   configContent, tempConfigPath, error, dirs, files>>

\* the generator run completes
ExecDoxygen(t) ==
    /\ pc[t] = "exec"
    /\ \E outcome \in ExecOutcomes :
          LET done == <<[Call("execDoxygen", tempConfigPath[t],
                              outcome # "failed")
                         EXCEPT !.msg = outcome]>>
          IN  IF outcome # "failed"
              THEN /\ Record(t, done)
                   /\ Goto(t, "remove")
                   /\ UNCHANGED error
              ELSE GenerationCatch(t, done, "Error: Command failed")
    /\ UNCHANGED <<host, inputs, cwd, originalCwd, checkedPath, configPath,
                   configContent, tempConfigPath, dirs, files>>

\* variant: the working directory is not restored
AfterRemoveNoRestore(t, done) ==
    /\ UNCHANGED cwd
    /\ Record(t, done)
    /\ Goto(t, "publish")

\* variant: run() records its result without publishing
AfterRemoveSkipPublish(t, done) ==
    /\ cwd' = [cwd EXCEPT ![t] = originalCwd[t]]
    /\ Record(t, done \o <<Call("chdir", originalCwd[t], TRUE)>>)
    /\ Goto(t, "succeed")

\* generateDocumentation after fs.remove(tempConfigPath) succeeded
AfterRemove(t, done) ==
    /\ cwd' = [cwd EXCEPT ![t] = originalCwd[t]]
    /\ Record(t, done \o <<Call("chdir", originalCwd[t], TRUE)>>)
    /\ Goto(t, "publish")

\* fs.remove(tempConfigPath) completes; generateDocumentation returns
RemoveTemp(t) ==
    /\ pc[t] = "remove"
    /\ \E ok \in BOOLEAN :
          LET done == <<Call("remove", tempConfigPath[t], ok)>>
          IN  IF ok
              THEN /\ files' = RemoveFile(tempConfigPath[t])
                   /\ AfterRemove(t, done)
                   /\ UNCHANGED error
              ELSE /\ GenerationCatch(t, done, "Error: EBUSY")
                   /\ UNCHANGED <<cwd, files>>
    /\ UNCHANGED <<host, inputs, originalCwd, checkedPath, configPath,
                   configContent, tempConfigPath, dirs>>

ArtifactName == "documentation"

\* variant: publishArtifacts lets the upload error escape
AfterUploadUncaught(t, ok) ==
    IF ok
    THEN Goto(t, "succeed") /\ UNCHANGED error
    ELSE /\ error' = [error EXCEPT ![t] = "Error: Upload failed"]
         /\ Goto(t, "runCatch")

\* publishArtifacts after tl.uploadArtifact returned or threw
AfterUpload(t, ok) == Goto(t, "succeed") /\ UNCHANGED error

\* variant: the source directory is published instead of the output directory
PublishSourceDirectory(t) ==
    /\ pc[t] = "publish"
    /\ \E ok \in BOOLEAN :
          /\ Record(t, <<[Call("uploadArtifact", inputs[t].sourceDirectory, ok)
                          EXCEPT !.msg = ArtifactName,
                                 !.display = ArtifactName]>>)
          /\ AfterUpload(t, ok)
    /\ UNCHANGED <<host, inputs, cwd, originalCwd, checkedPath, configPath,
                   configContent, tempConfigPath, error, dirs, files>>

\* run() calls publishArtifacts, which has no await
Publish(t) ==
    /\ pc[t] = "publish"
    /\ \E ok \in BOOLEAN :
          /\ Record(t, <<[Call("uploadArtifact", inputs[t].outputDirectory, ok)
                          EXCEPT !.msg = ArtifactName,
                                 !.display = ArtifactName]>>)
          /\ AfterUpload(t, ok)
    /\ UNCHANGED <<host, inputs, cwd, originalCwd, checkedPath, configPath,
                   configContent, tempConfigPath, dirs, files>>

\* the end of the try block of run()
Succeed(t) ==
    /\ pc[t] = "succeed"
    /\ Record(t, <<setResult("Succeeded", SucceededMessage)>>)
    /\ Goto(t, "done")
    /\ UNCHANGED <<host, inputs, cwd, originalCwd, checkedPath, configPath,
                   configContent, tempConfigPath, error, dirs, files>>

\* variant: the catch block of run() reports and throws again
RunCatchRethrown(t) ==
    /\ pc[t] = "runCatch"
    /\ Record(t, <<setResult("Failed", TaskFailedMessage(error[t]))>>)
    /\ Goto(t, "raised")
    /\ UNCHANGED <<host, inputs, cwd, originalCwd, checkedPath, configPath,
                   configContent, tempConfigPath, error, dirs, files>>

\* the catch block of run()
RunCatch(t) ==
    /\ pc[t] = "runCatch"
    /\ Record(t, <<setResult("Failed", TaskFailedMessage(error[t]))>>)
    /\ Goto(t, "done")
    /\ UNCHANGED <<host, inputs, cwd, originalCwd, checkedPath, configPath,
                   configContent, tempConfigPath, error, dirs, files>>

Next ==
    \/ \E t \in Tasks : Start(t)
    \/ \E t \in Tasks : Probe(t)
    \/ \E t \in Tasks : PathExists(t)
    \/ \E t \in Tasks : EnsureDir(t)
    \/ \E t \in Tasks : GenerateBegin(t)
    \/ \E t \in Tasks : ReadFile(t)
    \/ \E t \in Tasks : WriteFile(t)
    \/ \E t \in Tasks : StartDoxygen(t)
    \/ \E t \in Tasks : ExecDoxygen(t)
    \/ \E t \in Tasks : RemoveTemp(t)
    \/ \E t \in Tasks : Publish(t)
    \/ \E t \in Tasks : Succeed(t)
    \/ \E t \in Tasks : RunCatch(t)

Spec == Init /\ [][Next]_vars

-----------------------------------------------------------------------------
(* Runs in custom mode over every short configuration text                  *)

MaxTextLen == 4

TextTokens == {"OUTPUT_DIRECTORY", " ", "=", "\n", "x"}

Texts == UNION {[1..k -> TextTokens] : k \in 0..MaxTextLen}

PatchOutputDirs ==
    {<<"/", "w", "out">>, <<"/", "w", "$&">>, <<"/", "w", "$$">>}

PatchHostInputs ==
    [sourceDirectory    : {<<"/", "w", "src">>},
     outputDirectory    : PatchOutputDirs,
     ProjectName        : {"P"},
     ProjectVersion     : {"2.0"},
     SourceFilePattern  : {"*.c"},
     UseCustomDoxyFile  : {TRUE},
     CustomDoxyFilePath : {<<"cfg">>}]

InitPatch ==
    /\ InitTasksFrom(Single, PatchHostInputs)
    /\ dirs = {<<"/">>, StartCwd, <<"/", "w", "src">>}
    /\ files \in [{<<"/", "w", "src", "cfg">>} -> Texts]

SpecPatch == InitPatch /\ [][Next]_vars

-----------------------------------------------------------------------------
(* Runs in custom mode whose source directory may be a symbolic link        *)

LinkHostInputs ==
    [sourceDirectory    : {<<"/", "ln">>, <<"/", "w", "src">>, <<"src">>},
     outputDirectory    : {<<"/", "w", "out">>},
     ProjectName        : {"P"},
     ProjectVersion     : {"2.0"},
     SourceFilePattern  : {"*.c"},
     UseCustomDoxyFile  : {TRUE},
     CustomDoxyFilePath : {<<"cfg">>, <<"..", "cfg">>,
                           <<"/", "w", "src", "cfg">>}]

LinkConfigPaths == UserConfigPaths \cup {<<"/", "cfg">>}

InitLinks ==
    /\ InitTasksFrom(Single, LinkHostInputs)
    /\ dirs = {<<"/">>, StartCwd, <<"/", "w", "src">>}
    /\ \E D \in SUBSET LinkConfigPaths : files \in [D -> UserTexts]

SpecLinks == InitLinks /\ [][Next]_vars

-----------------------------------------------------------------------------
(* Runs under fair scheduling                                               *)

RunHostInputs ==
    [sourceDirectory    : {NoPath, <<"/", "w", "src">>, <<"/", "ln">>},
     outputDirectory    : {<<"/", "w", "out">>},
     ProjectName        : {"P"},
     ProjectVersion     : {"2.0"},
     SourceFilePattern  : {"*.c"},
     UseCustomDoxyFile  : BOOLEAN,
     CustomDoxyFilePath : {NoPath, <<"cfg">>}]

InitRun == InitTasksFrom(Single, RunHostInputs) /\ InitFileSystem

\* a continuation runs once the promise it awaits is settled, and every
\* file-system operation settles; nothing makes a child process exit, so the
\* version probe and the generator run are not required to complete
Fairness ==
    \A t \in Tasks :
        /\ WF_vars(Start(t))
        /\ WF_vars(PathExists(t))
        /\ WF_vars(EnsureDir(t))
        /\ WF_vars(GenerateBegin(t))
        /\ WF_vars(ReadFile(t))
        /\ WF_vars(WriteFile(t))
        /\ WF_vars(StartDoxygen(t))
        /\ WF_vars(RemoveTemp(t))
        /\ WF_vars(Publish(t))
        /\ WF_vars(Succeed(t))
        /\ WF_vars(RunCatch(t))

SpecRun == InitRun /\ [][Next]_vars /\ Fairness

-----------------------------------------------------------------------------
(* Two task processes started on the same source directory                  *)

PairHostInputs ==
    [sourceDirectory    : {<<"/", "w", "src">>},
     outputDirectory    : {<<"/", "w", "out">>},
     ProjectName        : {"P", "Q"},
     ProjectVersion     : {"2.0"},
     SourceFilePattern  : {"*.c"},
     UseCustomDoxyFile  : BOOLEAN,
     CustomDoxyFilePath : {<<"cfg">>}]

InitPair ==
    /\ host \in [Tasks -> PairHostInputs]
    /\ InitTasksOn(Tasks)
    /\ dirs = {<<"/">>, StartCwd, <<"/", "w", "src">>}
    /\ files \in [{<<"/", "w", "src", "cfg">>} -> UserTexts]

SpecPair == InitPair /\ [][Next]_vars

-----------------------------------------------------------------------------
(* Vocabulary of the properties                                             *)

Made(t, op, ok) ==
    \E i \in 1..Len(calls[t]) : calls[t][i].op = op /\ calls[t][i].ok = ok

Attempted(t, op) == Made(t, op, TRUE) \/ Made(t, op, FALSE)

Recorded(t, result, msg) ==
    \E i \in 1..Len(calls[t]) : calls[t][i] = setResult(result, msg)

ResultCount(t) ==
    Cardinality({i \in 1..Len(calls[t]) : calls[t][i].op = "setResult"})

ValidationMessages ==
    {loc("DoxygenNotFound", ""), MissingPathMessage}
    \cup {loc("ConfigFileNotFound", PathStr(PathResolve2(StartCwd, d, c))) :
              d \in HostSourceDirs \cup {StartCwd},
              c \in HostCustomPaths \ {NoPath}}

ValidationFailed(t) ==
    \E m \in ValidationMessages : Recorded(t, "Failed", m)

\* validateInputs has returned or thrown
ValidationOver(t) == pc[t] \notin {"off", "start", "probe", "pathExists", "ensureDir"}

\* generateDocumentation has just rejected: its catch block has run and the
\* error is on its way to the catch block of run()
GenerationRejected(t) ==
    /\ pc[t] = "runCatch"
    /\ Len(calls[t]) > 0
    /\ calls[t][Len(calls[t])].op = "setResult"

\* generateDocumentation has returned or rejected
GenerationOver(t) == pc[t] \in {"publish", "succeed", "done", "runCatch"}

-----------------------------------------------------------------------------
(* C1: whenever generateDocumentation rejects after it changed the working  *)
(* directory, the working directory is back to the one recorded at entry.   *)
(* The catch block does not restore it.                                     *)
C1_CwdRestoredOnError ==
    \A t \in Tasks :
        GenerationRejected(t) /\ Made(t, "chdir", TRUE)
            => cwd[t] = originalCwd[t]

(* C2: once generateDocumentation has returned or rejected, a temporary     *)
(* file it wrote is gone.  The catch block does not remove it.              *)
C2_TempFileRemoved ==
    \A t \in Tasks :
        GenerationOver(t) /\ Made(t, "writeFile", TRUE)
            => tempConfigPath[t] \notin DOMAIN files

(* C3: a finished run has called setResult exactly once.                    *)
C3_OneResultPerRun ==
    \A t \in Tasks : pc[t] = "done" => ResultCount(t) = 1

(* C4: after validation reported a failure there is no chdir, no write of   *)
(* the temporary file, no generator run and no artifact upload.             *)
C4_ValidationFailureHalts ==
    \A t \in Tasks :
        ValidationFailed(t)
            => /\ ~Attempted(t, "chdir")
               /\ ~Attempted(t, "writeFile")
               /\ ~Attempted(t, "execDoxygen")
               /\ ~Attempted(t, "uploadArtifact")

\* the index of the first call of an operation (0 if there is none)
FirstCall(t, op) ==
    IF Attempted(t, op)
    THEN CHOOSE i \in 1..Len(calls[t]) :
            /\ calls[t][i].op = op
            /\ \A k \in 1..(i - 1) : calls[t][k].op # op
    ELSE 0

ProbeFailed(t) == Made(t, "execVersion", FALSE)

ProbeSucceeded(t) == Made(t, "execVersion", TRUE)

(* C5: after a failed version probe validateInputs has recorded Failed      *)
(* DoxygenNotFound as its only result, has returned without raising (run()  *)
(* goes on in its try block), and has neither checked the custom            *)
(* configuration file nor created the output directory.                     *)
C5_ProbeFailureShortCircuits ==
    \A t \in Tasks :
        ProbeFailed(t)
            => /\ Len(calls[t]) >= 2
               /\ calls[t][1] = Call("execVersion", NoPath, FALSE)
               /\ calls[t][2] = setResult("Failed", loc("DoxygenNotFound", ""))
               /\ Len(calls[t]) = 2 => pc[t] = "generate"
               /\ ~Attempted(t, "pathExists")
               /\ ~Attempted(t, "ensureDir")
               /\ ~Recorded(t, "Failed", MissingPathMessage)

C5_Witness ==
    /\ pc[1] = "generate"
    /\ ProbeFailed(1)
    /\ CustomPathGiven(inputs[1])
    /\ calls[1][2].msg = "DoxygenNotFound: "

(* C6 as stated: with useCustomDoxyFile and no customDoxyFilePath, finished *)
(* validation has recorded the missing-path failure, whether the probe      *)
(* succeeded or failed.                                                     *)
C6_MissingPathWhateverTheProbe ==
    \A t \in Tasks :
        ValidationOver(t)
          /\ inputs[t].useCustomDoxyFile
          /\ inputs[t].customDoxyFilePath = NoPath
            => Recorded(t, "Failed", MissingPathMessage)

(* C6 amended: with useCustomDoxyFile and no customDoxyFilePath, when the   *)
(* probe succeeded, finished validation has recorded the missing-path       *)
(* failure right after the probe and has not created the output directory;  *)
(* when the probe failed it has recorded DoxygenNotFound instead.           *)
C6_MissingPathAfterProbe ==
    \A t \in Tasks :
        ValidationOver(t)
          /\ inputs[t].useCustomDoxyFile
          /\ inputs[t].customDoxyFilePath = NoPath
            => /\ ProbeSucceeded(t)
                    => /\ calls[t][2] = setResult("Failed", MissingPathMessage)
                       /\ ~Attempted(t, "pathExists")
                       /\ ~Attempted(t, "ensureDir")
               /\ ProbeFailed(t)
                    => /\ calls[t][2].msg = "DoxygenNotFound: "
                       /\ ~Recorded(t, "Failed", MissingPathMessage)

C6_Witness ==
    /\ pc[1] = "generate"
    /\ ProbeSucceeded(1)
    /\ inputs[1].useCustomDoxyFile
    /\ inputs[1].customDoxyFilePath = NoPath
    /\ Len(calls[1]) = 2
    /\ calls[1][2].result = "Failed"

\* the absolute path the custom configuration path of a task resolves to
\* against its source directory
ResolvedCustomPath(t) ==
    PathResolve2(StartCwd, inputs[t].sourceDirectory,
                 inputs[t].customDoxyFilePath)

CustomFileMissing(t) ==
    /\ inputs[t].useCustomDoxyFile
    /\ inputs[t].customDoxyFilePath # NoPath
    /\ ~pathExists(ResolvedCustomPath(t))

(* C7 as stated: with useCustomDoxyFile and a customDoxyFilePath that       *)
(* resolves to nothing on disk, finished validation has recorded Failed     *)
(* ConfigFileNotFound with the resolved path and has not created the output *)
(* directory.                                                               *)
C7_ConfigFileNotFoundAlways ==
    \A t \in Tasks :
        ValidationOver(t) /\ CustomFileMissing(t)
            => /\ Recorded(t, "Failed",
                      loc("ConfigFileNotFound", PathStr(ResolvedCustomPath(t))))
               /\ ~Attempted(t, "ensureDir")

(* C7 amended: the same when the version probe succeeded; the failure is    *)
(* then the only result validation records.  After a failed probe the       *)
(* existence of the file is not looked at.                                  *)
C7_ConfigFileNotFoundAfterProbe ==
    \A t \in Tasks :
        ValidationOver(t) /\ CustomFileMissing(t)
            => /\ ProbeSucceeded(t)
                    => /\ calls[t][2] =
                              Call("pathExists", ResolvedCustomPath(t), FALSE)
                       /\ calls[t][3] =
                              setResult("Failed",
                                  loc("ConfigFileNotFound",
                                      PathStr(ResolvedCustomPath(t))))
                       /\ ~Recorded(t, "Failed", MissingPathMessage)
               /\ ProbeFailed(t) => ~Attempted(t, "pathExists")
               /\ ~Attempted(t, "ensureDir")

C7_Witness ==
    /\ pc[1] = "generate"
    /\ ProbeSucceeded(1)
    /\ inputs[1].sourceDirectory = <<"src">>
    /\ inputs[1].customDoxyFilePath = <<"cfg">>
    /\ <<"/", "w", "src">> \in dirs
    /\ Len(calls[1]) = 3
    /\ calls[1][3] = setResult("Failed", "ConfigFileNotFound: /w/src/cfg")

ExecFailed(t) == Made(t, "execDoxygen", FALSE)

(* C8: after a failed generator run the next two calls of the task are      *)
(* setResult(Failed, 'Failed to generate documentation: <error>') by        *)
(* generateDocumentation and then, from the catch block of run(),           *)
(* setResult(Failed, 'Task failed: <error>') with the same error; nothing   *)
(* follows, Succeeded is never recorded and no artifact is uploaded.        *)
C8_GenerationFailureReportedTwice ==
    \A t \in Tasks :
        ExecFailed(t)
            => LET i == FirstCall(t, "execDoxygen")
               IN  /\ pc[t] \in {"runCatch", "done"}
                   /\ error[t] # ""
                   /\ Len(calls[t]) >= i + 1
                   /\ calls[t][i + 1] =
                          setResult("Failed",
                              "Failed to generate documentation: " \o error[t])
                   /\ pc[t] = "runCatch" => Len(calls[t]) = i + 1
                   /\ pc[t] = "done"
                        => /\ Len(calls[t]) = i + 2
                           /\ calls[t][i + 2] =
                                  setResult("Failed",
                                            "Task failed: " \o error[t])
                   /\ \A k \in 1..Len(calls[t]) :
                          /\ calls[t][k].result # "Succeeded"
                          /\ calls[t][k].op # "uploadArtifact"

C8_Witness ==
    /\ pc[1] = "done"
    /\ ExecFailed(1)
    /\ ProbeSucceeded(1)
    /\ ResultCount(1) = 2
    /\ calls[1][Len(calls[1])].msg = "Task failed: Error: Command failed"

\* generateDocumentation has returned: the generator run succeeded and so
\* did the removal of the temporary file, the last await of the function
GenerationReturned(t) ==
    /\ pc[t] \in {"publish", "succeed", "done"}
    /\ Made(t, "execDoxygen", TRUE)
    /\ Made(t, "remove", TRUE)

(* C9: once generateDocumentation has returned after a successful generator *)
(* run, the working directory is the one the task had before the call,      *)
(* whatever the source directory and the mode.                              *)
C9_CwdRestoredOnSuccess ==
    \A t \in Tasks :
        /\ pc[t] = "generate" => cwd[t] = StartCwd
        /\ GenerationReturned(t) => cwd[t] = StartCwd

C9_Witness ==
    /\ pc[1] = "publish"
    /\ GenerationReturned(1)
    /\ CustomPathGiven(inputs[1])
    /\ inputs[1].sourceDirectory = <<"src">>
    /\ \E i \in 1..Len(calls[1]) :
          calls[1][i] = Call("chdir", <<"/", "w", "src">>, TRUE)

UploadFailed(t) == Made(t, "uploadArtifact", FALSE)

(* C10: after a failed artifact upload publishArtifacts returns normally,   *)
(* no Failed result is recorded from then on, and the run ends with         *)
(* setResult(Succeeded, 'Documentation generated successfully').            *)
C10_PublishFailureAbsorbed ==
    \A t \in Tasks :
        UploadFailed(t)
            => LET i == FirstCall(t, "uploadArtifact")
               IN  /\ pc[t] \in {"succeed", "done"}
                   /\ pc[t] = "succeed" => Len(calls[t]) = i
                   /\ pc[t] = "done"
                        => /\ Len(calls[t]) = i + 1
                           /\ calls[t][i + 1] =
                                  setResult("Succeeded",
                                      "Documentation generated successfully")

C10_Witness ==
    /\ pc[1] = "done"
    /\ UploadFailed(1)
    /\ calls[1][Len(calls[1])].result = "Succeeded"

-----------------------------------------------------------------------------
\* the number of calls of an operation
CallCount(t, op) ==
    Cardinality({i \in 1..Len(calls[t]) : calls[t][i].op = op})

\* some Failed result has been recorded
AnyFailed(t) ==
    \E i \in 1..Len(calls[t]) : calls[t][i].result = "Failed"

LastCall(t) == calls[t][Len(calls[t])]

ExpectedOutputDirectory(t) ==
    IF host[t].outputDirectory = NoPath
    THEN <<"/", "w", "docs">>
    ELSE host[t].outputDirectory

(* C12: a task calls uploadArtifact at most once, with the name and the     *)
(* display name 'documentation' and the output directory of its Task        *)
(* Configuration, and only after its generator run and the removal of the   *)
(* temporary file have succeeded and no generation failure was recorded.    *)
C12_SingleArtifactUpload ==
    \A t \in Tasks :
        /\ CallCount(t, "uploadArtifact") <= 1
        /\ \A i \in 1..Len(calls[t]) :
              calls[t][i].op = "uploadArtifact"
                => /\ calls[t][i].msg = "documentation"
                   /\ calls[t][i].display = "documentation"
                   /\ calls[t][i].path = ExpectedOutputDirectory(t)
                   /\ \E k \in 1..(i - 1) :
                         calls[t][k].op = "execDoxygen" /\ calls[t][k].ok
                   /\ calls[t][i - 1] = Call("chdir", StartCwd, TRUE)
                   /\ calls[t][i - 2].op = "remove" /\ calls[t][i - 2].ok
                   /\ \A k \in 1..(i - 1) :
                         calls[t][k].result = "Failed"
                            => calls[t][k].msg \in ValidationMessages

C12_Witness ==
    /\ pc[1] = "succeed"
    /\ host[1].outputDirectory = NoPath
    /\ \E i \in 1..Len(calls[1]) :
          /\ calls[1][i].op = "uploadArtifact"
          /\ calls[1][i].path = <<"/", "w", "docs">>
          /\ calls[1][i].ok

-----------------------------------------------------------------------------
(* The patch of the custom configuration text, as the specification words   *)
(* it: line by line                                                         *)

\* the first index from i on that holds no blank within the line
RECURSIVE SkipBlanks(_, _)
SkipBlanks(text, i) ==
    IF i > Len(text) THEN i
    ELSE IF text[i] \in {" ", "\t"} THEN SkipBlanks(text, i + 1)
    ELSE i

\* the line starting at index i reads OUTPUT_DIRECTORY = <anything>
IsDirectiveLine(text, i) ==
    /\ i = 1 \/ text[i - 1] = "\n"
    /\ text[i] = "OUTPUT_DIRECTORY"
    /\ LET j == SkipBlanks(text, i + 1)
       IN  j <= Len(text) /\ text[j] = "="

DirectiveLines(text) == {i \in 1..Len(text) : IsDirectiveLine(text, i)}

\* the last index of the line starting at index i
RECURSIVE EndOfLine(_, _)
EndOfLine(text, i) ==
    IF i + 1 > Len(text) \/ text[i + 1] = "\n" THEN i
    ELSE EndOfLine(text, i + 1)

\* the text with its first directive line replaced, all else kept
FirstDirectiveReplaced(text, outputDirectory) ==
    IF DirectiveLines(text) = {} THEN text
    ELSE LET i == CHOOSE k \in DirectiveLines(text) :
                     \A m \in DirectiveLines(text) : k <= m
         IN  SubSeq(text, 1, i - 1)
             \o <<"OUTPUT_DIRECTORY", " ", "=", " ">>
             \o PathTokens(outputDirectory)
             \o SubSeq(text, EndOfLine(text, i) + 1, Len(text))

\* the task has just written its temporary file in custom mode
WroteCustomConfig(t) ==
    /\ pc[t] = "exec"
    /\ Made(t, "readFile", TRUE)
    /\ tempConfigPath[t] \in DOMAIN files
    /\ configPath[t] \in DOMAIN files

(* C13: in custom mode the text written to the temporary file is the user's *)
(* file with its first OUTPUT_DIRECTORY line replaced by                    *)
(* 'OUTPUT_DIRECTORY = <outputDirectory>' and every other line kept.        *)
C13_OnlyFirstDirectiveLineReplaced ==
    \A t \in Tasks :
        WroteCustomConfig(t)
            => files[tempConfigPath[t]] =
                   FirstDirectiveReplaced(files[configPath[t]],
                                          inputs[t].outputDirectory)

(* C14: patching the written text again with the same output directory      *)
(* gives the written text.                                                  *)
C14_PatchIdempotent ==
    \A t \in Tasks :
        WroteCustomConfig(t)
            => ReplaceOutputDirectory(files[tempConfigPath[t]],
                                      inputs[t].outputDirectory)
                   = files[tempConfigPath[t]]

(* C15: when no line of the user's file is an OUTPUT_DIRECTORY directive,   *)
(* the text written to the temporary file is the user's file.               *)
C15_NoDirectiveNoChange ==
    \A t \in Tasks :
        WroteCustomConfig(t) /\ DirectiveLines(files[configPath[t]]) = {}
            => files[tempConfigPath[t]] = files[configPath[t]]

-----------------------------------------------------------------------------
\* text holds the line `key = value`
HasDirective(text, key, value) ==
    \E i \in 1..Len(text) :
        /\ i = 1 \/ text[i - 1] = "\n"
        /\ i + 5 <= Len(text)
        /\ SubSeq(text, i, i + 5) = <<key, " ", "=", " ", value, "\n">>

\* the task has synthesized its configuration text and is about to write it
BuiltAutoConfig(t) ==
    /\ pc[t] = "writeFile"
    /\ ~Attempted(t, "readFile")

(* C16: the synthesized configuration text holds the lines                  *)
(* PROJECT_NAME = "<projectName>", PROJECT_NUMBER = "<projectVersion>"      *)
(* ("1.0" when the host gave no version), FILE_PATTERNS =                   *)
(* <sourceFilePattern>, INPUT = <sourceDirectory>, OUTPUT_DIRECTORY =       *)
(* <outputDirectory>, GENERATE_HTML = YES and EXTRACT_ALL = YES.            *)
C16_AutoConfigDirectives ==
    \A t \in Tasks :
        BuiltAutoConfig(t)
            => LET text == configContent[t]
                   in == inputs[t]
               IN  /\ HasDirective(text, "PROJECT_NAME",
                                   "\"" \o in.projectName \o "\"")
                   /\ HasDirective(text, "PROJECT_NUMBER",
                          "\"" \o (IF host[t].ProjectVersion = "" THEN "1.0"
                                   ELSE host[t].ProjectVersion) \o "\"")
                   /\ HasDirective(text, "FILE_PATTERNS", in.sourceFilePattern)
                   /\ HasDirective(text, "INPUT", PathStr(in.sourceDirectory))
                   /\ HasDirective(text, "OUTPUT_DIRECTORY",
                                   PathStr(in.outputDirectory))
                   /\ HasDirective(text, "GENERATE_HTML", "YES")
                   /\ HasDirective(text, "EXTRACT_ALL", "YES")

C16_Witness ==
    /\ BuiltAutoConfig(1)
    /\ host[1].ProjectVersion = ""
    /\ host[1].sourceDirectory = <<"src">>
    /\ HasDirective(configContent[1], "PROJECT_NUMBER", "\"1.0\"")
    /\ HasDirective(configContent[1], "PROJECT_NAME", "\"P\"")
    /\ HasDirective(configContent[1], "INPUT", "src")
    /\ HasDirective(configContent[1], "OUTPUT_DIRECTORY", "/w/out")

-----------------------------------------------------------------------------
\* a string input as the Input Resolver must yield it
Defaulted(supplied, default) == IF supplied = "" THEN default ELSE supplied

\* a path input as the Input Resolver must yield it
DefaultedPath(supplied, default) ==
    IF supplied = NoPath THEN default ELSE supplied

-----------------------------------------------------------------------------
\* the generator run of the task completed and wrote to standard error
StderrRun(t) ==
    \E i \in 1..Len(calls[t]) :
        calls[t][i].op = "execDoxygen" /\ calls[t][i].msg = "stderr"

\* a Failed result that generateDocumentation or run() recorded
GenerationFailureRecorded(t) ==
    \E i \in 1..Len(calls[t]) :
        /\ calls[t][i].result = "Failed"
        /\ calls[t][i].msg \notin ValidationMessages

-----------------------------------------------------------------------------
IsValidationResult(c) ==
    c.op = "setResult" /\ c.msg \in ValidationMessages

\* the results validateInputs recorded, in order
ValidationResults(t) == SelectSeq(calls[t], IsValidationResult)

\* what checks made in the order probe, path present, file exists, stopping
\* at the first that fails, record
OrderedChecks(t) ==
    IF ProbeFailed(t)
    THEN <<setResult("Failed", "DoxygenNotFound: ")>>
    ELSE IF inputs[t].useCustomDoxyFile /\ inputs[t].customDoxyFilePath = NoPath
    THEN <<setResult("Failed", MissingPathMessage)>>
    ELSE IF inputs[t].useCustomDoxyFile /\ ~pathExists(ResolvedCustomPath(t))
    THEN <<setResult("Failed",
               "ConfigFileNotFound: " \o PathStr(ResolvedCustomPath(t)))>>
    ELSE <<>>

(* C19: once validateInputs is over, the results it recorded are those of   *)
(* the checks probe, path present, file exists made in this order and       *)
(* stopping at the first failure: at most one Failed result.                *)
C19_ValidationAsOrderedChecks ==
    \A t \in Tasks :
        ValidationOver(t)
            => /\ ValidationResults(t) = OrderedChecks(t)
               /\ Len(ValidationResults(t)) <= 1

C19_Witness ==
    /\ pc[1] = "generate"
    /\ ProbeSucceeded(1)
    /\ inputs[1].useCustomDoxyFile
    /\ inputs[1].customDoxyFilePath = <<"cfg">>
    /\ inputs[1].sourceDirectory = <<"/", "w">>
    /\ ValidationResults(1) =
           <<setResult("Failed", "ConfigFileNotFound: /w/cfg")>>

-----------------------------------------------------------------------------
\* the task is inside validateInputs
Validating(t) == pc[t] \in {"probe", "pathExists", "ensureDir"}

\* a step of validateInputs leaves the working directory and the files
\* alone, and creates directories only in its ensureDir step: the output
\* directory and the ancestors it lacks
ValidationStepFrame ==
    \A t \in Single :
        Validating(t)
            => /\ cwd' = cwd
               /\ files' = files
               /\ dirs' # dirs
                    => /\ pc[t] = "ensureDir"
                       /\ dirs' = dirs \cup
                              Ancestors(ExpectedOutputDirectory(t))

\* validateInputs called ensureDir once if it recorded no failure, else never
EnsureDirIffValid ==
    \A t \in Tasks :
        ValidationOver(t)
            => /\ CallCount(t, "ensureDir") =
                      (IF ValidationResults(t) = <<>> THEN 1 ELSE 0)
               /\ \A i \in 1..Len(calls[t]) :
                      calls[t][i].op = "ensureDir"
                        => calls[t][i].path = ExpectedOutputDirectory(t)
               /\ pc[t] = "generate"
                    => \A i \in 1..Len(calls[t]) :
                          calls[t][i].op \in
                              {"execVersion", "pathExists", "ensureDir",
                               "setResult"}

(* C20: validateInputs calls ensureDir(outputDirectory) exactly once when   *)
(* it records no failure and never when it records one; no step of it       *)
(* changes the working directory or a file, and the only directories it     *)
(* creates are the output directory and its missing ancestors.              *)
C20_EnsureDirOnlySideEffect ==
    []EnsureDirIffValid /\ [][ValidationStepFrame]_vars

C20_Witness ==
    /\ pc[1] = "generate"
    /\ Made(1, "ensureDir", TRUE)
    /\ CustomPathGiven(inputs[1])
    /\ <<"/", "w", "out">> \in dirs
    /\ cwd[1] = StartCwd
    /\ DOMAIN files \subseteq UserConfigPaths

-----------------------------------------------------------------------------
\* generateDocumentation has built the configuration text of the task
ConfigurationBuilt(t) == tempConfigPath[t] # NoPath

\* the text is the user's file with its output directory patched
CustomMode(t) ==
    /\ Made(t, "readFile", TRUE)
    /\ RealPath(configPath[t]) \in DOMAIN files
    /\ configContent[t] =
           ReplaceOutputDirectory(files[RealPath(configPath[t])],
                                  inputs[t].outputDirectory)

\* the text is the synthesized template and no file was read
AutoMode(t) ==
    /\ ~Attempted(t, "readFile")
    /\ configContent[t] = generateAutoDoxyfile(inputs[t])

(* C21: once generateDocumentation has built the configuration text, the    *)
(* text comes from the user's file if useCustomDoxyFile is set and is the   *)
(* synthesized template if it is not.  The code takes the custom branch     *)
(* only if the path is given as well, and generation runs after a failed    *)
(* validation.                                                              *)
C21_BranchByUseCustomAlone ==
    \A t \in Tasks :
        ConfigurationBuilt(t)
            => IF inputs[t].useCustomDoxyFile THEN CustomMode(t)
               ELSE AutoMode(t)

-----------------------------------------------------------------------------
\* the directory the source directory of a task leads to
SourceRoot(t) == RealPath(PathResolve1(StartCwd, inputs[t].sourceDirectory))

\* the temporary configuration file of a task
TempFile(t) == Append(SourceRoot(t), "Doxyfile.tmp")

IsGenerationStep(c) == c.op \in {"chdir", "writeFile", "execDoxygen", "remove"}

\* what generateDocumentation did to the process and the file system, in
\* order: the operation, its path and whether it succeeded
GenerationSteps(t) ==
    LET steps == SelectSeq(calls[t], IsGenerationStep)
    IN  [i \in 1..Len(steps) |-> <<steps[i].op, steps[i].path, steps[i].ok>>]

\* the generator of the task is running
GeneratorRunning(t) == pc[t] = "exec"

(* C22: a generateDocumentation that has returned has done, once each and   *)
(* in this order: chdir to the source directory, write Doxyfile.tmp inside  *)
(* it, run the generator on that file, remove the file, chdir back to the   *)
(* directory it started in; and while the generator runs, the file exists   *)
(* and holds the configuration text that was built.                         *)
C22_GenerationSequence ==
    \A t \in Tasks :
        /\ GenerationReturned(t)
              => GenerationSteps(t) =
                     << <<"chdir",
                          PathResolve1(StartCwd, inputs[t].sourceDirectory),
                          TRUE>>,
                        <<"writeFile", TempFile(t), TRUE>>,
                        <<"execDoxygen", TempFile(t), TRUE>>,
                        <<"remove", TempFile(t), TRUE>>,
                        <<"chdir", StartCwd, TRUE>> >>
        /\ GeneratorRunning(t)
              => /\ ConfigurationBuilt(t)
                 /\ TempFile(t) \in DOMAIN files
                 /\ files[TempFile(t)] = configContent[t]
                 /\ ~Attempted(t, "remove")

C22_Witness ==
    /\ pc[1] = "done"
    /\ GenerationReturned(1)
    /\ inputs[1].sourceDirectory = <<"/", "ln">>
    /\ Made(1, "readFile", TRUE)
    /\ TempFile(1) = <<"/", "w", "src", "Doxyfile.tmp">>

-----------------------------------------------------------------------------
\* how far run() has come at each await: validateInputs (1-3),
\* generateDocumentation (4-9), publishArtifacts (10), the terminal
\* setResult (11), the end (12)
Rank(label) ==
    CASE label \in {"off", "start"} -> 0
      [] label = "probe"            -> 1
      [] label = "pathExists"       -> 2
      [] label = "ensureDir"        -> 3
      [] label = "generate"         -> 4
      [] label = "readFile"         -> 5
      [] label = "writeFile"        -> 6
      [] label = "written"          -> 7
      [] label = "exec"             -> 8
      [] label = "remove"           -> 9
      [] label = "publish"          -> 10
      [] label \in {"succeed", "runCatch"} -> 11
      [] label = "done"             -> 12

\* every step takes a task forward
Forward ==
    \A t \in Tasks : pc'[t] # pc[t] => Rank(pc'[t]) > Rank(pc[t])

\* the calls of a task come in the order of the three functions, and no
\* subprocess is started twice
OneShot(t) ==
    /\ CallCount(t, "execVersion") <= 1
    /\ CallCount(t, "execDoxygen") <= 1
    /\ CallCount(t, "uploadArtifact") <= 1
    /\ \A i, k \in 1..Len(calls[t]) :
          /\ calls[t][i].op \in {"execVersion", "pathExists", "ensureDir"}
          /\ calls[t][k].op \in {"chdir", "readFile", "writeFile",
                                 "execDoxygen", "remove", "uploadArtifact"}
          => i < k
    /\ \A i, k \in 1..Len(calls[t]) :
          /\ calls[t][i].op \in {"chdir", "readFile", "writeFile",
                                 "execDoxygen", "remove"}
          /\ calls[t][k].op = "uploadArtifact"
          => i < k
    /\ pc[t] = "done" => LastCall(t).op = "setResult"

\* the task waits for a child process that never exits
WaitsForever(t) == <>[](pc[t] \in {"probe", "exec"})

-----------------------------------------------------------------------------
\* the promise of run() has resolved
Resolved(t) == pc[t] = "done"

\* an error has been thrown inside run(): by fs.ensureDir, or by
\* generateDocumentation after the failure of chdir, readFile, writeFile, the
\* generator run or remove
Thrown(t) == error[t] # ""

\* run() has resolved after its catch block reported the error
ResolvedAfterReport(t) ==
    /\ Resolved(t)
    /\ LastCall(t) = setResult("Failed", TaskFailedMessage(error[t]))

(* C24: whatever fails, run() resolves.  A thrown error leads to the catch  *)
(* block of run(), which records Failed 'Task failed: ...' and lets run()   *)
(* resolve; a failed probe is recorded as Failed DoxygenNotFound and a      *)
(* failed upload is absorbed, neither throws.                               *)
C24_RunNeverRaises ==
    /\ \A t \in Tasks : Thrown(t) ~> ResolvedAfterReport(t)
    /\ \A t \in Tasks : UploadFailed(t) ~> Resolved(t) /\ ~Thrown(t)
    /\ [](\A t \in Tasks :
             ProbeFailed(t)
                 => /\ ~Thrown(t) \/ Attempted(t, "chdir")
                    /\ Recorded(t, "Failed", loc("DoxygenNotFound", "")))

C24_Witness ==
    /\ Resolved(1)
    /\ Made(1, "execVersion", TRUE)
    /\ Made(1, "execDoxygen", FALSE)
    /\ error[1] = "Error: Command failed"
    /\ LastCall(1) = setResult("Failed", "Task failed: Error: Command failed")

-----------------------------------------------------------------------------
\* the write of task t has landed and t is about to start its generator
AboutToStart(t) == pc[t] = "written"

\* a completed write of a task puts its text in its temporary file, whatever
\* was there
WriteOverwrites ==
    \A t \in Tasks :
        pc[t] = "writeFile" /\ pc'[t] = "written"
            => /\ tempConfigPath[t] \in DOMAIN files'
               /\ files'[tempConfigPath[t]] = configContent[t]

\* a completed removal by a task deletes its temporary file, whoever wrote it
RemoveDeletes ==
    \A t \in Tasks :
        pc[t] = "remove" /\ pc'[t] = "publish"
            => tempConfigPath[t] \notin DOMAIN files'

\* the temporary file holds the text of task u, which is not the text of t
HoldsTextOf(u, t) ==
    /\ ConfigurationBuilt(u)
    /\ tempConfigPath[t] \in DOMAIN files
    /\ files[tempConfigPath[t]] = configContent[u]
    /\ configContent[u] # configContent[t]

\* the temporary file of t is gone, removed by task u
RemovedBy(u, t) ==
    /\ Made(u, "remove", TRUE)
    /\ tempConfigPath[u] = tempConfigPath[t]
    /\ tempConfigPath[t] \notin DOMAIN files

(* C25: two tasks on the same source directory use the same temporary file, *)
(* <sourceDirectory>/Doxyfile.tmp, and neither the write nor the removal    *)
(* looks at who owns it: a write replaces the text that is there and a      *)
(* removal deletes it.  So a task can start its generator while the file    *)
(* holds the other task's text or is gone.                                  *)
C25_TempFileShared ==
    /\ [](\A t, u \in Tasks :
             /\ ConfigurationBuilt(t) /\ ConfigurationBuilt(u)
             /\ inputs[t].sourceDirectory = inputs[u].sourceDirectory
             => /\ tempConfigPath[t] = TempFile(t)
                /\ tempConfigPath[t] = tempConfigPath[u])
    /\ [][WriteOverwrites /\ RemoveDeletes]_vars

\* task 1 is about to start its generator on a file that holds the text of
\* task 2
C25_Witness ==
    /\ AboutToStart(1)
    /\ HoldsTextOf(2, 1)

\* task 1 is about to start its generator on a file that task 2 has removed
C25_StartsOnRemovedFile ==
    /\ AboutToStart(1)
    /\ RemovedBy(2, 1)

-----------------------------------------------------------------------------
\* a Succeeded result was recorded after a Failed one
SucceededAfterFailed(t) ==
    \E i, k \in 1..Len(calls[t]) :
        /\ i < k
        /\ calls[t][i].result = "Failed"
        /\ calls[t][k].result = "Succeeded"

(* C26: no Succeeded result is recorded after a Failed one, and a finished  *)
(* run that reported a failure has Failed as its last result.  A failure    *)
(* reported by validateInputs does not stop run(), which records Succeeded  *)
(* when the rest goes well.                                                 *)
C26_FailedIsFinal ==
    \A t \in Tasks :
        /\ ~SucceededAfterFailed(t)
        /\ pc[t] = "done" /\ AnyFailed(t) => LastCall(t).result = "Failed"

-----------------------------------------------------------------------------
(* C27: a run that has recorded Succeeded has run the generator, and the    *)
(* generator run completed without error.                                   *)
C27_SucceededOnlyAfterGenerator ==
    \A t \in Tasks :
        Recorded(t, "Succeeded", SucceededMessage)
            => /\ Made(t, "execDoxygen", TRUE)
               /\ ~ExecFailed(t)
               /\ CallCount(t, "execDoxygen") = 1

C27_Witness ==
    /\ pc[1] = "done"
    /\ Recorded(1, "Succeeded", SucceededMessage)
    /\ ProbeFailed(1)
    /\ UploadFailed(1)
    /\ \E i \in 1..Len(calls[1]) :
          calls[1][i].op = "execDoxygen" /\ calls[1][i].msg = "stderr"

-----------------------------------------------------------------------------
\* validateInputs has found the custom configuration file and
\* generateDocumentation has resolved its path again after changing directory
ResolvedTwice(t) ==
    /\ Made(t, "pathExists", TRUE)
    /\ configPath[t] # NoPath

(* C28: the path generateDocumentation resolves after chdir(sourceDirectory) *)
(* leads to the file validateInputs found when it resolved the path against  *)
(* sourceDirectory (a fortiori when the two absolute paths are equal).       *)
(* After chdir the working directory is reported with symbolic links         *)
(* followed, so a path with ".." through a linked source directory leads     *)
(* elsewhere.                                                                *)
C28_SameConfigurationFile ==
    \A t \in Tasks :
        ResolvedTwice(t) => RealPath(configPath[t]) = RealPath(checkedPath[t])

====
